---------------------------- MODULE Spec2Model ----------------------------
(***************************************************************************)
(* A model of the ChatBot controller of chat-bot/static/js/app.js.         *)
(*                                                                         *)
(* JavaScript runs one handler at a time; a handler runs without           *)
(* interruption up to its next await.  Every action below is one such run: *)
(* a DOM event handler, the continuation of an async method after a fetch  *)
(* settles, or a timer callback.                                           *)
(*                                                                         *)
(* A string is a sequence of tokens; the token " " is one space character  *)
(* and every other token is a chunk of text without spaces.                *)
(*                                                                         *)
(* Not modelled: the character counter, the textarea height, the scroll    *)
(* position, the message time stamp and the text of the error toast        *)
(* (updateCharCount, autoResizeTextarea, scrollToBottom, formatTime, the   *)
(* first line of showError).  They write presentation fields that no       *)
(* method reads back.  A bot message carries the text its typing animation *)
(* (typeText) ends with.                                                   *)
(***************************************************************************)
EXTENDS Integers, Sequences, FiniteSets, TLC

VARIABLES
    session,        \* number of page loads so far (ghost)
    hasWelcome,     \* whether the page's markup holds a .welcome-message element
    storedTheme,    \* localStorage 'theme' ("null" when the key is absent)
    currentTheme,   \* this.currentTheme
    dataTheme,      \* the data-theme attribute of the document element
    themeIcon,      \* class of the icon of the theme button
    isTyping,       \* this.isTyping
    typingShown,    \* typingIndicator has class 'show'
    messageCount,   \* this.messageCount
    transcript,     \* children of messagesContainer, in document order
    inputValue,     \* messageInput.value
    sendDisabled,   \* sendButton.disabled
    loadingShown,   \* loadingOverlay has class 'show'
    botStatus,      \* class of the .bot-status element
    toastShown,     \* errorToast has class 'show'
    timers,         \* pending setTimeout callbacks, in the order they were set
    calls,          \* sendMessage invocations suspended at an await
    submits,        \* number of accepted submits of this session (ghost)
    health,         \* checkBackendHealth: "fetch" while awaiting, then "done"
    healthCalls,    \* number of checkBackendHealth invocations of this session (ghost)
    ignored         \* the handler that ran last was a sendMessage that returned at its guard (ghost)

vars == <<session, hasWelcome, storedTheme, currentTheme, dataTheme, themeIcon,
          isTyping, typingShown, messageCount, transcript, inputValue,
          sendDisabled, loadingShown, botStatus, toastShown,
          timers, calls, submits, health, healthCalls, ignored>>

(***************************************************************************)
(* Bounds of the model.                                                    *)
(***************************************************************************)
MaxSessions == 2
MaxSubmits == 2

(***************************************************************************)
(* Program constants.                                                      *)
(***************************************************************************)
MaxLength == 100
TemperatureTenths == 7

Space == " "

FallbackText ==
    <<"Sorry,", " ", "I", " ", "encountered", " ", "an", " ", "error.", " ",
      "Please", " ", "try", " ", "again.">>

ClearedText ==
    <<"Chat", " ", "cleared!", " ", "How", " ", "can", " ", "I", " ", "help",
      " ", "you?">>

(***************************************************************************)
(* The values the environment supplies.                                    *)
(***************************************************************************)
InputTexts == { <<>>, <<" ">>, <<" ", "hi", " ">> }

ReplyStrings == { <<"hi", " ", " ", "there">> }

\* data.reply of a parsed 200 body: a string, absent (undefined or null), or
\* a value that is no string and has no length (a number)
ReplyValues ==
    { [t |-> "str", s |-> r] : r \in ReplyStrings }
        \cup { [t |-> "undef", s |-> <<>>], [t |-> "num", s |-> <<>>] }

NoReply == [t |-> "undef", s |-> <<>>]

\* what a fetch of /chat settles to: the fetch rejects ("neterr"), the status
\* is not ok ("httperr": the error is thrown from the detail of the body, or
\* from parsing it), the body of a 200 does not parse ("badjson"), or it
\* parses to data with the reply given ("ok")
ChatResponses ==
    { [kind |-> k, reply |-> NoReply] : k \in {"neterr", "httperr", "badjson"} }
        \cup { [kind |-> "ok", reply |-> v] : v \in ReplyValues }

\* what a fetch of /health settles to: a body with status 'healthy', a body
\* with another status, a body that does not parse, or a rejected fetch
HealthResponses == { "healthy", "other", "badjson", "neterr" }

(***************************************************************************)
(* String functions.                                                       *)
(***************************************************************************)
\* s without its leading spaces
TrimStart(s) ==
    IF \A i \in 1..Len(s) : s[i] = Space
    THEN <<>>
    ELSE LET first == CHOOSE i \in 1..Len(s) :
                        s[i] # Space /\ \A j \in 1..(i - 1) : s[j] = Space
         IN  SubSeq(s, first, Len(s))

\* s without its trailing spaces
TrimEnd(s) ==
    IF \A i \in 1..Len(s) : s[i] = Space
    THEN <<>>
    ELSE LET last == CHOOSE i \in 1..Len(s) :
                        s[i] # Space /\ \A j \in (i + 1)..Len(s) : s[j] = Space
         IN  SubSeq(s, 1, last)

\* String.prototype.trim
Trim(s) ==
    TrimEnd(TrimStart(s))

\* the pieces of s between the positions in spaces
Pieces(s, spaces) ==
    LET \* the position of the k-th space; 0 before the first piece and
        \* Len(s) + 1 after the last
        at(k) == IF k = 0 THEN 0
                 ELSE IF k > Cardinality(spaces) THEN Len(s) + 1
                 ELSE CHOOSE i \in spaces : Cardinality({j \in spaces : j <= i}) = k
    IN  [k \in 1..(Cardinality(spaces) + 1) |-> SubSeq(s, at(k - 1) + 1, at(k) - 1)]

\* text.split(' '): the pieces between the spaces, empty pieces included
\* (the set of space positions is bound once, as a value)
SplitSpace(s) ==
    CHOOSE pieces \in {Pieces(s, spaces) : spaces \in {{i \in 1..Len(s) : s[i] = Space}}} :
        TRUE

\* a faulty loop of typeText: each word assigned to textContent, not added
TypedWordsAssigned(words, n) ==
    IF n = 0 THEN <<>>
    ELSE (IF n > 1 THEN <<Space>> ELSE <<>>) \o words[n]

\* the loop of typeText: textContent after the words 1..n were written
TypedWords(words, n) ==
    LET typed[i \in 0..n] ==
            IF i = 0 THEN <<>>
            ELSE typed[i - 1] \o (IF i > 1 THEN <<Space>> ELSE <<>>) \o words[i]
    IN  typed[n]

\* typeText(element, text): the text the element ends with.  A value that is
\* no string has no split method: the element keeps the '' it was reset to.
\* (const words is bound once, as a value)
TypeText(v) ==
    IF v.t = "str"
    THEN CHOOSE typed \in {TypedWords(words, Len(words)) : words \in {SplitSpace(v.s)}} :
            TRUE
    ELSE <<>>

StrVal(s) == [t |-> "str", s |-> s]


(***************************************************************************)
(* Methods of ChatBot.  An operator with primed variables is the state     *)
(* change of the method of the same name.                                  *)
(***************************************************************************)

\* a child of messagesContainer: who sent it, its text, whether it is the
\* .welcome-message element, and the accepted submit it belongs to (ghost; 0: none)
Message(sender, text, welcome, sid) ==
    [sender |-> sender, text |-> text, welcome |-> welcome, sid |-> sid]

WelcomeElement ==
    Message("bot", <<"Welcome">>, TRUE, 0)

\* the markup's messagesContainer at page load
InitialTranscript(welcome) ==
    IF welcome THEN <<WelcomeElement>> ELSE <<>>

\* a faulty addMessage: the new element inserted before the others
addMessageFirst(container, v, sender, sid) ==
    <<Message(sender, IF sender = "bot" THEN TypeText(v) ELSE v.s, FALSE, sid)>>
        \o container

\* addMessage(text, sender): the container after the call; a bot message is
\* written by typeText, a user message is set directly
addMessage(container, v, sender, sid) ==
    Append(container,
           Message(sender, IF sender = "bot" THEN TypeText(v) ELSE v.s, FALSE, sid))

\* updateSendButton: the new value of sendButton.disabled
SendButtonDisabled(value, typing) ==
    ~(Len(Trim(value)) > 0) \/ typing

\* a faulty guard: isTyping not tested
AcceptsWhileTyping(value, typing) ==
    ~(Trim(value) = <<>>)

\* a faulty guard: the value tested without trim()
AcceptsUntrimmed(value, typing) ==
    ~(value = <<>> \/ typing)

\* the guard of sendMessage: the call goes on (it does not return at once)
Accepts(value, typing) ==
    ~(Trim(value) = <<>> \/ typing)

\* the JSON body of the POST to /chat
ChatBody(message) ==
    [message |-> message, max_length |-> MaxLength, temperature |-> TemperatureTenths]

\* a faulty test: every body that parses counts as healthy
IsHealthyAnyBody(r) ==
    r \in {"healthy", "other"}

\* data.status === 'healthy', for a response whose body parsed
IsHealthy(r) ==
    r = "healthy"

\* the theme toggleTheme switches to
ToggledTheme(theme) ==
    IF theme = "light" THEN "dark" ELSE "light"

\* a faulty constructor: the stored theme not read
RestoredThemeDefault(stored) ==
    "light"

\* localStorage.getItem('theme') || 'light'
RestoredTheme(stored) ==
    IF stored = "null" THEN "light" ELSE stored

\* the icon applyTheme sets
IconOf(theme) ==
    IF theme = "light" THEN "fas fa-moon" ELSE "fas fa-sun"

\* a pending setTimeout callback: hideErrorToast (tag 0) or the end of
\* simulateTypingDelay (tag: the submit that waits for it)
Timer(kind, tag) ==
    [kind |-> kind, tag |-> tag]

\* the try block of sendMessage throws on this response: fetch rejects, the
\* status is not ok, the body does not parse, or data.reply has no length to read
ChatThrows(resp) ==
    \/ resp.kind # "ok"
    \/ resp.reply.t = "undef"

\* a faulty hideTyping: the indicator hidden, the flag left as it is
hideTypingIndicatorOnly ==
    /\ isTyping' = isTyping
    /\ typingShown' = FALSE
    /\ sendDisabled' = SendButtonDisabled(inputValue, isTyping)

hideTyping ==
    /\ isTyping' = FALSE
    /\ typingShown' = FALSE
    /\ sendDisabled' = SendButtonDisabled(inputValue, FALSE)

showError ==
    /\ toastShown' = TRUE
    /\ timers' = Append(timers, Timer("hide", 0))

hideErrorToast ==
    toastShown' = FALSE

\* the constructor and init(), run on the first page load.  The elements come
\* from the markup; setupEventListeners sets the start-up hide timer,
\* checkBackendHealth shows the loading overlay and fetches /health, and
\* applyTheme applies the restored theme
Init ==
    /\ session = 1
    /\ hasWelcome \in BOOLEAN
    /\ storedTheme = "null"
    /\ ignored = FALSE
    /\ isTyping = FALSE
    /\ typingShown = FALSE
    /\ messageCount = 0
    /\ currentTheme = RestoredTheme(storedTheme)
    /\ dataTheme = currentTheme
    /\ themeIcon = IconOf(currentTheme)
    /\ transcript = InitialTranscript(hasWelcome)
    /\ inputValue = <<>>
    /\ sendDisabled \in BOOLEAN
    /\ loadingShown = TRUE
    /\ botStatus = "unknown"
    /\ toastShown = FALSE
    /\ timers = <<Timer("hide", 0)>>
    /\ calls = {}
    /\ submits = 0
    /\ health = "fetch"
    /\ healthCalls = 1

(***************************************************************************)
(* Actions: one per handler run.                                           *)
(***************************************************************************)

themeVars == <<storedTheme, currentTheme, dataTheme, themeIcon>>
toastVars == <<toastShown>>
typingVars == <<isTyping, typingShown>>
healthVars == <<loadingShown, botStatus, health, healthCalls>>
pageVars == <<session, hasWelcome>>

\* the 'input' listener of messageInput: the user edits the text
TypeInput(v) ==
    /\ inputValue' = v
    /\ sendDisabled' = SendButtonDisabled(v, isTyping)
    /\ ignored' = FALSE
    /\ UNCHANGED <<pageVars, themeVars, toastVars, typingVars, healthVars,
                   messageCount, transcript, timers, calls, submits>>

\* sendMessage() up to its first await
sendMessage ==
    LET message == Trim(inputValue) IN
    IF ~Accepts(inputValue, isTyping)
    THEN /\ ignored' = TRUE
         /\ UNCHANGED <<pageVars, themeVars, toastVars, typingVars, healthVars,
                        messageCount, transcript, timers, calls, submits,
                        inputValue, sendDisabled>>
    ELSE /\ transcript' = addMessage(transcript, StrVal(message), "user", submits + 1)
         /\ messageCount' = messageCount + 1
         /\ inputValue' = <<>>
         /\ isTyping' = TRUE
         /\ typingShown' = TRUE
         /\ sendDisabled' = SendButtonDisabled(<<>>, TRUE)
         /\ calls' = calls \cup
                {[sid |-> submits + 1, pc |-> "fetch", body |-> ChatBody(message),
                  reply |-> NoReply]}
         /\ submits' = submits + 1
         /\ ignored' = FALSE
         /\ UNCHANGED <<pageVars, themeVars, toastVars, healthVars, timers>>

\* the user submits only MaxSubmits messages a session
MaySubmit ==
    Accepts(inputValue, isTyping) => submits < MaxSubmits

\* the 'click' listener of sendButton; a disabled button sends no click
ClickSend ==
    /\ ~sendDisabled
    /\ MaySubmit
    /\ sendMessage

\* the 'keydown' listener of messageInput, on Enter without Shift
PressEnter ==
    /\ MaySubmit
    /\ sendMessage

\* sendMessage() resumes when the fetch of /chat settles to resp.  The bodies
\* are read and data.reply.length is evaluated without another handler's state
\* change in between, so the awaits up to the delay are one step.
ChatSettle(c, resp) ==
    /\ c \in calls
    /\ c.pc = "fetch"
    /\ IF ChatThrows(resp)
       THEN /\ hideTyping
            /\ showError
            /\ transcript' = addMessage(transcript, StrVal(FallbackText), "bot", c.sid)
            /\ messageCount' = messageCount + 1
            /\ calls' = calls \ {c}
            /\ ignored' = FALSE
       ELSE /\ timers' = Append(timers, Timer("delay", c.sid))
            /\ calls' = (calls \ {c}) \cup {[c EXCEPT !.pc = "delay", !.reply = resp.reply]}
            /\ ignored' = FALSE
            /\ UNCHANGED <<toastVars, typingVars, sendDisabled, transcript, messageCount>>
    /\ UNCHANGED <<pageVars, themeVars, healthVars, inputValue, submits>>

\* timers without the i-th
Without(seq, i) ==
    SubSeq(seq, 1, i - 1) \o SubSeq(seq, i + 1, Len(seq))

\* sendMessage() resumes when the timer of simulateTypingDelay fires.  The
\* delay is at most 3 s, so it may fire before hide timers set earlier.
DelayEnd(c) ==
    /\ c \in calls
    /\ c.pc = "delay"
    /\ \E i \in 1..Len(timers) :
            /\ timers[i] = Timer("delay", c.sid)
            /\ timers' = Without(timers, i)
    /\ hideTyping
    /\ transcript' = addMessage(transcript, c.reply, "bot", c.sid)
    /\ messageCount' = messageCount + 1
    /\ calls' = calls \ {c}
    /\ ignored' = FALSE
    /\ UNCHANGED <<pageVars, themeVars, toastVars, healthVars, inputValue, submits>>

\* a 5 s timer calls hideErrorToast.  No timer has a longer delay, so it
\* fires only once every timer set before it has fired.
HideTimer ==
    /\ timers # <<>>
    /\ Head(timers).kind = "hide"
    /\ timers' = Tail(timers)
    /\ hideErrorToast
    /\ ignored' = FALSE
    /\ UNCHANGED <<pageVars, themeVars, typingVars, healthVars, messageCount,
                   transcript, inputValue, sendDisabled, calls, submits>>

\* the 'click' listener of .close-toast
CloseToast ==
    /\ toastShown
    /\ hideErrorToast
    /\ ignored' = FALSE
    /\ UNCHANGED <<pageVars, themeVars, typingVars, healthVars, messageCount,
                   transcript, inputValue, sendDisabled, calls, submits,
                   timers>>

\* checkBackendHealth() resumes when the fetch of /health settles to r
HealthSettle(r) ==
    /\ health = "fetch"
    /\ health' = "done"
    /\ loadingShown' = FALSE
    /\ IF IsHealthy(r)
       THEN /\ botStatus' = "online"
            /\ UNCHANGED <<toastVars, timers>>
       ELSE /\ botStatus' = "offline"
            /\ showError
    /\ ignored' = FALSE
    /\ UNCHANGED <<pageVars, themeVars, typingVars, healthCalls, messageCount,
                   transcript, inputValue, sendDisabled, calls, submits>>

\* a faulty clearChat: the welcome element not kept
KeptNothing(container) ==
    <<>>

\* messagesContainer.querySelector('.welcome-message'), cloned into the
\* emptied container when there is one
KeptWelcome(container) ==
    IF \E i \in 1..Len(container) : container[i].welcome
    THEN <<container[CHOOSE i \in 1..Len(container) :
                /\ container[i].welcome
                /\ \A j \in 1..(i - 1) : ~container[j].welcome]>>
    ELSE <<>>

\* the 'click' listener of clearChatBtn
clearChat ==
    /\ transcript' = addMessage(KeptWelcome(transcript), StrVal(ClearedText), "bot", 0)
    /\ messageCount' = 0 + 1
    /\ ignored' = FALSE
    /\ UNCHANGED <<pageVars, themeVars, toastVars, typingVars, healthVars,
                   inputValue, sendDisabled, timers, calls, submits>>

\* the 'click' listener of toggleThemeBtn
toggleTheme ==
    /\ currentTheme' = ToggledTheme(currentTheme)
    /\ dataTheme' = ToggledTheme(currentTheme)
    /\ themeIcon' = IconOf(ToggledTheme(currentTheme))
    /\ storedTheme' = ToggledTheme(currentTheme)
    /\ ignored' = FALSE
    /\ UNCHANGED <<pageVars, toastVars, typingVars, healthVars, messageCount,
                   transcript, inputValue, sendDisabled, timers, calls, submits>>

\* the page is loaded again: the document, its timers and its pending calls
\* are gone, localStorage stays, and a new ChatBot is constructed
Restart ==
    /\ session < MaxSessions
    /\ session' = session + 1
    /\ UNCHANGED <<hasWelcome, storedTheme>>
    /\ ignored' = FALSE
    /\ isTyping' = FALSE
    /\ typingShown' = FALSE
    /\ messageCount' = 0
    /\ currentTheme' = RestoredTheme(storedTheme)
    /\ dataTheme' = RestoredTheme(storedTheme)
    /\ themeIcon' = IconOf(RestoredTheme(storedTheme))
    /\ transcript' = InitialTranscript(hasWelcome)
    /\ inputValue' = <<>>
    /\ sendDisabled' \in BOOLEAN
    /\ loadingShown' = TRUE
    /\ botStatus' = "unknown"
    /\ toastShown' = FALSE
    /\ timers' = <<Timer("hide", 0)>>
    /\ calls' = {}
    /\ submits' = 0
    /\ health' = "fetch"
    /\ healthCalls' = 1

Next ==
    \/ \E v \in InputTexts : TypeInput(v)
    \/ ClickSend
    \/ PressEnter
    \/ \E c \in calls, resp \in ChatResponses : ChatSettle(c, resp)
    \/ \E c \in calls : DelayEnd(c)
    \/ HideTimer
    \/ CloseToast
    \/ \E r \in HealthResponses : HealthSettle(r)
    \/ clearChat
    \/ toggleTheme
    \/ Restart

Spec ==
    Init /\ [][Next]_vars

\* the backend answers every request and every timer fires
Fairness ==
    /\ WF_vars(\E c \in calls, resp \in ChatResponses : ChatSettle(c, resp))
    /\ WF_vars(\E c \in calls : DelayEnd(c))
    /\ WF_vars(HideTimer)
    /\ WF_vars(\E r \in HealthResponses : HealthSettle(r))

LiveSpec ==
    Init /\ [][Next]_vars /\ Fairness

(***************************************************************************)
(* Properties.                                                             *)
(***************************************************************************)

\* a run of sendMessage, from the button or from the Enter key
SendStep ==
    ClickSend \/ PressEnter

\* the variables a sendMessage that returns at its guard must leave alone:
\* all but the ghost that records it
sendFrame ==
    <<session, hasWelcome, storedTheme, currentTheme, dataTheme, themeIcon,
      isTyping, typingShown, messageCount, transcript, inputValue,
      sendDisabled, loadingShown, botStatus, toastShown, timers, calls,
      submits, health, healthCalls>>

\* C1: at most one chat request is in flight in every reachable state, and a
\* sendMessage run while isTyping is true returns at its guard: it appends
\* nothing, keeps the input and issues no request.
C1_OneRequestInFlight ==
    /\ [](Cardinality(calls) <= 1)
    /\ [][(isTyping /\ SendStep) => (ignored' /\ UNCHANGED sendFrame)]_vars

\* C1 witness: Enter was pressed with text in the input while a request was
\* in flight, after a clearChat, and was ignored.
C1_Witness ==
    /\ ignored
    /\ isTyping
    /\ Trim(inputValue) # <<>>
    /\ Cardinality(calls) = 1
    /\ \E i \in 1..Len(transcript) : transcript[i].text = ClearedText

\* C2: a sendMessage run on an input whose trim() is empty leaves the
\* transcript, the message count and isTyping unchanged and issues no request,
\* whether isTyping is true or false.
C2_EmptyInputIgnored ==
    [][(Trim(inputValue) = <<>> /\ SendStep)
          => (ignored' /\ UNCHANGED <<transcript, messageCount, isTyping, calls, timers>>)]_vars

\* C2 witness: a whitespace-only input was submitted while nothing was in
\* flight and was ignored.
C2_Witness ==
    /\ ignored
    /\ inputValue # <<>>
    /\ Trim(inputValue) = <<>>
    /\ ~isTyping
    /\ submits > 0

\* C3: isTyping is true exactly while one accepted submit is outstanding (its
\* request or its typing delay pending), and the typing indicator shows it.
C3_TypingWhileOutstanding ==
    /\ isTyping <=> (calls # {})
    /\ Cardinality(calls) <= 1
    /\ typingShown = isTyping
    /\ \A c \in calls :
            /\ c.pc \in {"fetch", "delay"}
            /\ c.pc = "delay" <=> Timer("delay", c.sid) \in {timers[i] : i \in 1..Len(timers)}

\* C3 witness: isTyping is still true during the typing delay of the second
\* submit, after the theme was toggled.
C3_Witness ==
    /\ isTyping
    /\ storedTheme # "null"
    /\ \E c \in calls : c.pc = "delay" /\ c.sid = 2

\* the call of submit sid is suspended in this state
Pending(sid) ==
    \E c \in calls : c.sid = sid

\* this step ends call c within its session
Ends(c) ==
    /\ c \in calls
    /\ ~Pending(c.sid)'
    /\ session' = session

\* call c ends a failed chat call: its fetch did not lead to the typing delay,
\* or the 200 body it got holds no reply string
FailedCall(c) ==
    c.pc = "fetch" \/ c.reply.t # "str"

\* C4: when a failed chat call ends, the transcript gains exactly one fallback
\* bot message, the error toast is shown and isTyping is false.
C4_FailureFallsBack ==
    [][\A c \in calls : (Ends(c) /\ FailedCall(c)) =>
            /\ transcript' = Append(transcript, Message("bot", FallbackText, FALSE, c.sid))
            /\ toastShown'
            /\ ~isTyping']_vars

ClearedTranscript ==
    InitialTranscript(hasWelcome) \o <<Message("bot", ClearedText, FALSE, 0)>>

C7_ThemeRoundTrip ==
    /\ [][toggleTheme => /\ currentTheme' # currentTheme
                         /\ ToggledTheme(currentTheme') = currentTheme]_vars
    /\ [](dataTheme = currentTheme)
    /\ [][Restart => (currentTheme' = dataTheme /\ dataTheme' = dataTheme)]_vars

\* C7 witness: a session restarted with the dark theme the previous one applied.
C7_Witness ==
    /\ session = 2
    /\ currentTheme = "dark"
    /\ storedTheme = "dark"
    /\ health = "fetch"

\* C8: checkBackendHealth runs once a session; a body with status 'healthy'
\* sets the status online and shows no notification, every other outcome sets
\* it offline and shows the error toast; the loading overlay ends hidden.
C8_HealthOnce ==
    /\ [](healthCalls = 1)
    /\ [](health = "done" => (~loadingShown /\ botStatus \in {"online", "offline"}))
    /\ [](health = "fetch" => botStatus = "unknown")
    /\ [][\A r \in HealthResponses : HealthSettle(r) =>
            /\ ~loadingShown'
            /\ r = "healthy" => (botStatus' = "online" /\ UNCHANGED <<toastShown, timers>>)
            /\ r # "healthy" => (botStatus' = "offline" /\ toastShown')]_vars

\* C8 witness: the health check of the second session failed: offline, the
\* toast shown, the overlay hidden.
C8_Witness ==
    /\ session = 2
    /\ health = "done"
    /\ botStatus = "offline"
    /\ toastShown
    /\ ~loadingShown

\* seq is a prefix of longer
IsPrefix(seq, longer) ==
    /\ Len(seq) <= Len(longer)
    /\ SubSeq(longer, 1, Len(seq)) = seq

\* the messages of the submits are in the order of the submits, each submit
\* has at most one user and one bot message, and the user message comes first
Ordered(container) ==
    \A i, j \in 1..Len(container) :
        (i < j /\ container[i].sid > 0 /\ container[j].sid > 0) =>
            \/ container[i].sid < container[j].sid
            \/ /\ container[i].sid = container[j].sid
               /\ container[i].sender = "user"
               /\ container[j].sender = "bot"

LaterHideTimer ==
    \E i \in 2..Len(timers) : timers[i].kind = "hide"

\* C10: a timer hides a shown error toast only if it is the timer set by the
\* showError call that showed it, which is the last hide timer set.
C10_OwnTimerHides ==
    [][(HideTimer /\ toastShown) => ~LaterHideTimer]_vars

=============================================================================
